---- MODULE Spec2Model ----
(***************************************************************************)
(* Drive Organizer: the React single-page frontend (mocked authentication, *)
(* two guarded routes, a dashboard of seeded numbers) and the Docker       *)
(* Compose stack that deploys it.                                          *)
(*                                                                         *)
(* The browser side is the component tree of frontend/src/main.tsx:        *)
(*   AuthProviderWithRouter > AuthProvider > RouterProvider > RootLayout   *)
(*   > Outlet (LoginPage | Dashboard).                                     *)
(* JavaScript values that may be absent are records with a flag            *)
(* (defined / given), null is the string "null".                           *)
(***************************************************************************)
EXTENDS Integers, Sequences, FiniteSets, TLC

VARIABLES
    auth,               \* main.tsx:44  state of AuthProviderWithRouter
    own,                \* AuthContext.tsx  useState pair of AuthProvider itself
    routerContextAuth,  \* main.tsx:24,48  router.context.auth
    effects,            \* runs of the [auth] effect still scheduled
    location,           \* URL of the page
    pending,            \* the route load in flight
    matched,            \* the committed route match (what <Outlet/> shows)
    query,              \* react-query cache entry ['dashboard-stats']
    requests,           \* network calls issued by the page so far
    handler,            \* the last event handler that ran, and how it ended
    composeUp,          \* docker-compose up has been issued
    image,              \* service -> its image is built / pulled
    container,          \* service -> "none" | "created" | "started"
    startOrder          \* services in the order their containers were started

vars == <<auth, own, routerContextAuth, effects, location, pending, matched,
          query, requests, handler, composeUp, image, container, startOrder>>

appVars == <<auth, own, routerContextAuth, effects, location, pending, matched,
             query, requests, handler>>

composeVars == <<composeUp, image, container, startOrder>>

(***************************************************************************)
(* Authentication context                                                  *)
(***************************************************************************)

NoUser == "null"

\* uid of the mock user built by the timer and by signInWithGoogle
mockUser == "mock-uid"

\* users the guards and the layout are exercised with
Users == {mockUser, "other-uid"}

\* React.useState({ user: null, isLoading: true })
InitialAuth == [user |-> NoUser, isLoading |-> TRUE]

AuthStates == [user : {NoUser} \cup Users, isLoading : BOOLEAN]

\* the three operations AuthContextType declares
AuthOps == {"signInWithGoogle", "logout", "getToken"}

\* value={{ ...auth, setAuth }}: the state and the setter, no operation
ProviderValue(a) ==
    [given |-> TRUE, user |-> a.user, isLoading |-> a.isLoading,
     fns |-> {"setAuth"}]

\* AuthProvider: with a value it provides that value and returns before
\* useEffect, so the 1000 ms mock-login timer is never registered and the
\* operations defined below the early return are never provided; without a
\* value it provides its own state and operations.
AuthProvider(value, st) ==
    IF value.given
    THEN [user |-> value.user, isLoading |-> value.isLoading, fns |-> value.fns]
    ELSE [user |-> st.user, isLoading |-> st.isLoading, fns |-> AuthOps]

\* useContext(AuthContext) below AuthProviderWithRouter
useAuth == AuthProvider(ProviderValue(auth), own)

\* Calling useAuth()[op](): a key the context value lacks is undefined, and
\* calling undefined throws a TypeError; otherwise the body of the operation.
Invoke(op) ==
    IF op \notin useAuth.fns
    THEN [outcome |-> "TypeError", result |-> NoUser, own |-> own]
    ELSE CASE op = "signInWithGoogle" ->
                [outcome |-> "fulfilled", result |-> mockUser,
                 own |-> [own EXCEPT !.user = mockUser]]
           [] op = "logout" ->
                [outcome |-> "fulfilled", result |-> NoUser,
                 own |-> [own EXCEPT !.user = NoUser]]
           [] OTHER ->
                [outcome |-> "fulfilled",
                 result |-> IF own.user = NoUser THEN NoUser ELSE "mock-token",
                 own |-> own]

(***************************************************************************)
(* Router context and the effect that fills it                             *)
(***************************************************************************)

\* context: { queryClient, auth: undefined }
Undefined == [defined |-> FALSE, user |-> NoUser, isLoading |-> FALSE]

\* mutant: the effect closes over the first render's auth (empty dependency
\* list), so every run writes the initial state
SyncRouterContextStale(a) ==
    [defined |-> TRUE, user |-> NoUser, isLoading |-> TRUE]

\* router.context.auth = auth
SyncRouterContext(a) ==
    [defined |-> TRUE, user |-> a.user, isLoading |-> a.isLoading]

\* <React.StrictMode> mounts every component twice in a development build
\* (effects run twice); a production build runs them once.
StrictModeRuns == 2

EffectRuns == {1, StrictModeRuns}

\* React.useEffect(() => { router.context.auth = auth }, [auth])
RunEffect ==
    /\ effects > 0
    /\ routerContextAuth' = SyncRouterContext(auth)
    /\ effects' = effects - 1
    /\ UNCHANGED <<auth, own, location, pending, matched, query, requests,
                   handler, composeVars>>

(***************************************************************************)
(* Routes and their beforeLoad guards                                      *)
(***************************************************************************)

Routes == {"/", "/login"}

NoRoute == "none"

Pass == "pass"

\* context.auth?.user
OptUser(ctx) == IF ctx.defined THEN ctx.user ELSE NoUser

\* mutant: context.auth && !context.auth.user, which lets an undefined
\* context through
IndexBeforeLoadNoOptional(ctx) ==
    IF ctx.defined /\ ctx.user = NoUser THEN "/login" ELSE Pass

\* routes/index.tsx beforeLoad: the redirect target, or Pass
IndexBeforeLoad(ctx) == IF OptUser(ctx) = NoUser THEN "/login" ELSE Pass

\* mutant: the login route without its guard
LoginBeforeLoadMissing(ctx) == Pass

\* routes/login.tsx beforeLoad: the redirect target, or Pass
LoginBeforeLoad(ctx) == IF OptUser(ctx) # NoUser THEN "/" ELSE Pass

BeforeLoad(route, ctx) ==
    IF route = "/" THEN IndexBeforeLoad(ctx) ELSE LoginBeforeLoad(ctx)

NoPending ==
    [to |-> NoRoute, stage |-> "idle", saw |-> Undefined,
     from |-> NoRoute, fromSaw |-> Undefined]

\* router.load() / router.navigate(): a load of `to` whose guard has not run
StartLoad(to) ==
    [to |-> to, stage |-> "beforeLoad", saw |-> Undefined,
     from |-> NoRoute, fromSaw |-> Undefined]

NoMatch == [route |-> NoRoute, saw |-> Undefined, from |-> NoRoute]

\* the guard of the pending route throws redirect({ to }): the load restarts
\* at the target, which replaces the URL
BeforeLoadRedirect ==
    /\ pending.stage = "beforeLoad"
    /\ BeforeLoad(pending.to, routerContextAuth) # Pass
    /\ pending' = [to |-> BeforeLoad(pending.to, routerContextAuth),
                   stage |-> "beforeLoad", saw |-> Undefined,
                   from |-> pending.to, fromSaw |-> routerContextAuth]
    /\ location' = BeforeLoad(pending.to, routerContextAuth)
    /\ UNCHANGED <<auth, own, routerContextAuth, effects, matched, query,
                   requests, handler, composeVars>>

\* the guard of the pending route returns: the match is ready to render
BeforeLoadPass ==
    /\ pending.stage = "beforeLoad"
    /\ BeforeLoad(pending.to, routerContextAuth) = Pass
    /\ pending' = [pending EXCEPT !.stage = "ready", !.saw = routerContextAuth]
    /\ UNCHANGED <<auth, own, routerContextAuth, effects, location, matched,
                   query, requests, handler, composeVars>>

\* the router commits the ready match: its component: is what <Outlet/> renders
Commit ==
    /\ pending.stage = "ready"
    /\ matched' = [route |-> pending.to, saw |-> pending.saw, from |-> pending.from]
    /\ pending' = NoPending
    /\ UNCHANGED <<auth, own, routerContextAuth, effects, location, query,
                   requests, handler, composeVars>>

(***************************************************************************)
(* What is on screen                                                       *)
(***************************************************************************)

\* mutant: the !user branch is dropped, the sidebar renders for nobody
RootLayoutNoUserCheck(v) == IF v.isLoading THEN "Loading" ELSE "Shell"

\* RootLayout: "Loading...", the bare <Outlet/>, or sidebar + <Outlet/>
RootLayout(v) ==
    IF v.isLoading THEN "Loading"
    ELSE IF v.user = NoUser THEN "Outlet"
    ELSE "Shell"

\* the component the <Outlet/> of RootLayout renders
Outlet ==
    IF RootLayout(useAuth) = "Loading" \/ matched.route = NoRoute THEN "nothing"
    ELSE IF matched.route = "/" THEN "Dashboard"
    ELSE "LoginPage"

ShellRendered == RootLayout(useAuth) = "Shell"

(***************************************************************************)
(* Event handlers of the pages                                             *)
(***************************************************************************)

NoHandler == [name |-> "none", outcome |-> "none"]

\* LoginPage.handleSignIn, bound to the "Sign in with Google" button:
\*   await signInWithGoogle();
ClickSignIn ==
    /\ Outlet = "LoginPage"
    /\ own' = Invoke("signInWithGoogle").own
    /\ handler' = [name |-> "handleSignIn",
                   outcome |-> Invoke("signInWithGoogle").outcome]
    /\ UNCHANGED <<auth, routerContextAuth, effects, location, pending,
                   matched, query, requests, composeVars>>

\* RootLayout.handleLogout, bound to the Logout button of the sidebar:
\*   await logout(); router.navigate({ to: '/login' });
\* a throwing logout() rejects the handler before the navigation
ClickLogout ==
    /\ ShellRendered
    /\ own' = Invoke("logout").own
    /\ handler' = [name |-> "handleLogout", outcome |-> Invoke("logout").outcome]
    /\ IF Invoke("logout").outcome = "fulfilled"
       THEN /\ pending' = StartLoad("/login")
            /\ location' = "/login"
       ELSE UNCHANGED <<pending, location>>
    /\ UNCHANGED <<auth, routerContextAuth, effects, matched, query, requests,
                   composeVars>>

\* targets of the sidebar's NavLink elements
NavLinks == {"/", "/drive", "/analyze", "/organize", "/settings"}

\* a click on a sidebar link whose route is part of the route tree
ClickNavLink(to) ==
    /\ ShellRendered
    /\ to \in NavLinks \cap Routes
    /\ pending' = StartLoad(to)
    /\ location' = to
    /\ UNCHANGED <<auth, own, routerContextAuth, effects, matched, query,
                   requests, handler, composeVars>>

(***************************************************************************)
(* Dashboard                                                               *)
(***************************************************************************)

NoData ==
    [totalImages |-> 0, analyzedImages |-> 0, categories |-> <<>>,
     recentActivity |-> <<>>]

IdleQuery == [status |-> "idle", data |-> NoData]

\* mutant: the TODO carried out, the statistics are fetched from the backend
queryFnFromApi ==
    [data |-> NoData, requests |-> << "GET /api/stats/dashboard" >>]

\* queryFn of useQuery(['dashboard-stats']): the literal it resolves to, and
\* the network calls its body makes (none: the api client is imported and
\* never used)
queryFn ==
    [data |->
        [totalImages |-> 1245,
         analyzedImages |-> 980,
         categories |->
            << [name |-> "Landscapes", count |-> 320],
               [name |-> "People", count |-> 280],
               [name |-> "Food", count |-> 150],
               [name |-> "Buildings", count |-> 110],
               [name |-> "Other", count |-> 120] >>,
         recentActivity |->
            << [date |-> "2023-01-01", count |-> 12],
               [date |-> "2023-01-02", count |-> 8],
               [date |-> "2023-01-03", count |-> 15],
               [date |-> "2023-01-04", count |-> 22],
               [date |-> "2023-01-05", count |-> 18],
               [date |-> "2023-01-06", count |-> 30],
               [date |-> "2023-01-07", count |-> 25] >>],
     requests |-> <<>>]

\* the Dashboard mounts and useQuery starts the fetch: queryFn is called
QueryFetch ==
    /\ Outlet = "Dashboard"
    /\ query.status = "idle"
    /\ query' = [query EXCEPT !.status = "pending"]
    /\ requests' = requests \o queryFn.requests
    /\ UNCHANGED <<auth, own, routerContextAuth, effects, location, pending,
                   matched, handler, composeVars>>

\* the promise of queryFn resolves into the cache
QueryResolve ==
    /\ query.status = "pending"
    /\ query' = [status |-> "success", data |-> queryFn.data]
    /\ UNCHANGED <<auth, own, routerContextAuth, effects, location, pending,
                   matched, requests, handler, composeVars>>

\* Math.round(x / y * 100) on non-negative integers
RoundPercent(x, y) == (200 * x + y) \div (2 * y)

\* what the Dashboard component puts on screen
Dashboard ==
    IF query.status # "success"
    THEN [view |-> "Loading dashboard...", totalImages |-> 0,
          analyzedImages |-> 0, percent |-> 0, categoryCount |-> 0,
          categories |-> <<>>]
    ELSE [view |-> "stats",
          totalImages |-> query.data.totalImages,
          analyzedImages |-> query.data.analyzedImages,
          percent |-> RoundPercent(query.data.analyzedImages,
                                   query.data.totalImages),
          categoryCount |-> Len(query.data.categories),
          categories |-> query.data.categories]

(***************************************************************************)
(* Page load                                                               *)
(***************************************************************************)

\* The browser loads the document at URL p (first visit, reload, typed URL):
\* the modules are evaluated again, so every piece of state restarts, and
\* RouterProvider loads the route of the URL.
Visit(p) ==
    /\ auth' = InitialAuth
    /\ own' = InitialAuth
    /\ routerContextAuth' = Undefined
    /\ effects' \in EffectRuns
    /\ location' = p
    /\ pending' = StartLoad(p)
    /\ matched' = NoMatch
    /\ query' = IdleQuery
    /\ handler' = NoHandler
    /\ UNCHANGED <<requests, composeVars>>

(***************************************************************************)
(* docker-compose.yml                                                      *)
(***************************************************************************)

Services == {"frontend", "backend", "redis"}

\* mutant: the backend service without its depends_on
DependsOnBackendFree(s) == IF s = "frontend" THEN {"backend"} ELSE {}

\* depends_on of each service
DependsOn(s) ==
    CASE s = "frontend" -> {"backend"}
      [] s = "backend" -> {"redis"}
      [] OTHER -> {}

\* docker-compose up
ComposeUp ==
    /\ ~composeUp
    /\ composeUp' = TRUE
    /\ UNCHANGED <<image, container, startOrder, appVars>>

\* build: (frontend, backend) or image: (redis) of a service is made available
EnsureImage(s) ==
    /\ composeUp
    /\ ~image[s]
    /\ image' = [image EXCEPT ![s] = TRUE]
    /\ UNCHANGED <<composeUp, container, startOrder, appVars>>

\* the container of a service is created, after those it depends on
CreateContainer(s) ==
    /\ composeUp
    /\ image[s]
    /\ container[s] = "none"
    /\ \A d \in DependsOn(s) : container[d] # "none"
    /\ container' = [container EXCEPT ![s] = "created"]
    /\ UNCHANGED <<composeUp, image, startOrder, appVars>>

\* the container of a service is started, once those it depends on are started
StartContainer(s) ==
    /\ composeUp
    /\ container[s] = "created"
    /\ \A d \in DependsOn(s) : container[d] = "started"
    /\ container' = [container EXCEPT ![s] = "started"]
    /\ startOrder' = Append(startOrder, s)
    /\ UNCHANGED <<composeUp, image, appVars>>

(***************************************************************************)
(* Specifications                                                          *)
(***************************************************************************)

ComposeInit ==
    /\ composeUp = FALSE
    /\ image = [s \in Services |-> FALSE]
    /\ container = [s \in Services |-> "none"]
    /\ startOrder = <<>>

\* first render of the application on a page load
AppInit(a) ==
    /\ auth = a
    /\ own = InitialAuth
    /\ routerContextAuth = Undefined
    /\ effects \in EffectRuns
    /\ location \in Routes
    /\ pending = StartLoad(location)
    /\ matched = NoMatch
    /\ query = IdleQuery
    /\ requests = <<>>
    /\ handler = NoHandler

\* the application as main.tsx composes it, and the stack not yet up
Init == AppInit(InitialAuth) /\ ComposeInit

\* the same application with the auth state drawn from every value of its
\* type: the inputs of the guards, of RootLayout and of the handlers
InputInit == (\E a \in AuthStates : AppInit(a)) /\ ComposeInit

AppNext ==
    \/ \E p \in Routes : Visit(p)
    \/ RunEffect
    \/ BeforeLoadRedirect
    \/ BeforeLoadPass
    \/ Commit

ComposeNext ==
    \/ ComposeUp
    \/ \E s \in Services : EnsureImage(s)
    \/ \E s \in Services : CreateContainer(s)
    \/ \E s \in Services : StartContainer(s)

PageNext ==
    \/ ClickSignIn
    \/ ClickLogout
    \/ \E to \in NavLinks : ClickNavLink(to)
    \/ QueryFetch
    \/ QueryResolve

Next == AppNext \/ ComposeNext

InputNext == AppNext \/ PageNext

Spec == Init /\ [][Next]_vars

InputSpec == InputInit /\ [][InputNext]_vars

\* React runs scheduled effects, the router finishes the loads it starts and
\* a pending promise of queryFn resolves; nothing obliges the user to act.
AppFairness ==
    /\ WF_vars(RunEffect)
    /\ WF_vars(BeforeLoadRedirect)
    /\ WF_vars(BeforeLoadPass)
    /\ WF_vars(Commit)
    /\ WF_vars(QueryFetch)
    /\ WF_vars(QueryResolve)

\* docker-compose up carries out every step it can take
ComposeFairness ==
    \A s \in Services :
        /\ WF_vars(EnsureImage(s))
        /\ WF_vars(CreateContainer(s))
        /\ WF_vars(StartContainer(s))

FairSpec == Spec /\ AppFairness /\ ComposeFairness

FairInputSpec == InputSpec /\ AppFairness

(***************************************************************************)
(* Claims                                                                  *)
(***************************************************************************)

\* C1: starting from the initial auth state (user null, isLoading true) the
\* auth state seen through useAuth() eventually is isLoading = false with the
\* mock user, without any user action.
C1_MockLoginResolves ==
    <>(useAuth.isLoading = FALSE /\ useAuth.user = mockUser)

C3_IndexGuarded ==
    /\ (pending.to = "/" /\ pending.stage = "ready")
          => (pending.saw.defined /\ pending.saw.user # NoUser)
    /\ matched.route = "/"
          => (matched.saw.defined /\ matched.saw.user # NoUser)
    /\ pending.from = "/" => pending.to = "/login"

\* C3 witness: the guard of "/" has seen a context whose auth is set with a
\* null user and has redirected the load to "/login".
C3_Witness ==
    /\ pending.from = "/"
    /\ pending.to = "/login"
    /\ pending.fromSaw.defined
    /\ pending.fromSaw.user = NoUser

\* C4: a load of "/login" whose router context holds an authenticated user
\* never gets past the guard: it is redirected to "/", and no match of
\* "/login" (hence no LoginPage) comes from a load that saw a user.
C4_LoginGuarded ==
    /\ (pending.to = "/login" /\ pending.stage = "ready")
          => ~(pending.saw.defined /\ pending.saw.user # NoUser)
    /\ matched.route = "/login"
          => ~(matched.saw.defined /\ matched.saw.user # NoUser)
    /\ pending.from = "/login" => pending.to = "/"

\* C4 witness: the guard of "/login" has seen an authenticated user and has
\* redirected the load to "/".
C4_Witness ==
    /\ pending.from = "/login"
    /\ pending.to = "/"
    /\ pending.fromSaw.defined
    /\ pending.fromSaw.user # NoUser

C6_AuthOpsNeverFail ==
    /\ \A op \in AuthOps : Invoke(op).outcome = "fulfilled"
    /\ Invoke("signInWithGoogle").result # NoUser

\* C7: router.context.auth starts undefined; whenever no run of the effect
\* is outstanding it equals the auth state that useAuth() shows, and it
\* reaches that state again and again (after every page load).
C7_RouterContextFollowsAuth ==
    /\ routerContextAuth = Undefined
    /\ [](effects = 0 =>
            /\ routerContextAuth.defined
            /\ routerContextAuth.user = useAuth.user
            /\ routerContextAuth.isLoading = useAuth.isLoading)
    /\ []<>(/\ routerContextAuth.defined
            /\ routerContextAuth.user = useAuth.user
            /\ routerContextAuth.isLoading = useAuth.isLoading)

\* C7 witness: the effect has copied a signed-in, loaded auth state into the
\* router context.
C7_Witness ==
    /\ effects = 0
    /\ routerContextAuth.defined
    /\ routerContextAuth.user = mockUser
    /\ ~routerContextAuth.isLoading

\* C8: whatever the auth state, the user and the history, the statistics the
\* Dashboard shows are the fixed values of the source (1245 images, 980
\* analyzed, five categories with their counts), and the page has issued no
\* network call.
C8_DashboardStatic ==
    /\ requests = <<>>
    /\ query.status = "success" =>
          Dashboard =
              [view |-> "stats",
               totalImages |-> 1245,
               analyzedImages |-> 980,
               percent |-> 79,
               categoryCount |-> 5,
               categories |->
                  << [name |-> "Landscapes", count |-> 320],
                     [name |-> "People", count |-> 280],
                     [name |-> "Food", count |-> 150],
                     [name |-> "Buildings", count |-> 110],
                     [name |-> "Other", count |-> 120] >>]

\* C8 witness: the Dashboard is on screen with its statistics loaded, for a
\* user other than the mock user.
C8_Witness ==
    /\ Outlet = "Dashboard"
    /\ query.status = "success"
    /\ useAuth.user = "other-uid"

====
